---------------------------- MODULE Spec2Model ----------------------------
(***************************************************************************)
(* A model of avocado's PlasticcAugmentor (src/avocado/plasticc.py).       *)
(*                                                                         *)
(* Floating point values are fixed-point integers in units of 1/Scale      *)
(* (a redshift of 0.5 is 500); NaN is a distinguished value with IEEE      *)
(* semantics (every arithmetic result is NaN, every comparison is false).  *)
(* A value that may be None is a record [isNone, val].                     *)
(* Every random draw is a nondeterministic choice over a finite sample of  *)
(* the distribution's support.                                             *)
(***************************************************************************)
EXTENDS Integers, Sequences, FiniteSets, TLC

VARIABLES
    stored,             \* what Dataset.load('plasticc_test') finds on disk
    loads,              \* number of invocations of Dataset.load
    test_dataset,       \* self._test_dataset
    photoz_reference,   \* self._photoz_reference
    pc,                 \* position of the (single) calling thread
    op,                 \* the method being run, or run last
    outcome,            \* how that method ended
    result_table,       \* value returned by _load_photoz_reference
    redshift,           \* argument of _simulate_photoz
    rejected,           \* iterations of the rejection loop that hit "continue"
    new_photoz,         \* _simulate_photoz's results
    new_photoz_err,
    reference_object,   \* argument of _augment_metadata (its metadata)
    augmented_metadata, \* the dict _augment_metadata builds
    frames,             \* the DataFrames alive: frame id -> rows
    arg_before,         \* the caller's table as it was when the call was made
    returned_frame,     \* id of the frame a method returned (0: none)
    pass_detection,     \* _simulate_detection's verdict
    tpc,                \* per thread: position inside _load_photoz_reference
    tlocal,             \* per thread: the locals test_dataset / result
    tret                \* per thread: the value its last call returned

vars == <<stored, loads, test_dataset, photoz_reference, pc, op, outcome,
          result_table, redshift, rejected, new_photoz, new_photoz_err,
          reference_object, augmented_metadata, frames, arg_before,
          returned_frame, pass_detection, tpc, tlocal, tret>>

-----------------------------------------------------------------------------
(* Bounds of the model *)

MaxRows == 2
MaxAttempts == 2
MaxSamples == 2
MaxObs == 2
NumThreads == 2

-----------------------------------------------------------------------------
(* Values *)

Scale == 1000

NaN == 0 - (1000 * Scale)

None == [isNone |-> TRUE, val |-> <<>>]

Some(v) == [isNone |-> FALSE, val |-> v]

Min(a, b) == IF a <= b THEN a ELSE b

Abs(a) == IF a < 0 THEN 0 - a ELSE a

Add(a, b) == IF a = NaN \/ b = NaN THEN NaN ELSE a + b

Lt(a, b) == a # NaN /\ b # NaN /\ a < b

Gt(a, b) == Lt(b, a)

\* a float times a float, both in units of 1/Scale
Mul(a, b) == IF a = NaN \/ b = NaN THEN NaN ELSE (a * b) \div Scale

-----------------------------------------------------------------------------
(* The reference dataset (external: Dataset.load) *)

MetadataRows ==
    { [host_specz |-> 500, host_photoz |-> 400, host_photoz_error |-> 50],
      [host_specz |-> 200, host_photoz |-> 3000, host_photoz_error |-> 100],
      [host_specz |-> 0 - 9000, host_photoz |-> 100, host_photoz_error |-> 10] }

SeqsUpTo(S, n) == UNION { [1..k -> S] : k \in 0..n }

\* a dataset holds each object once
Datasets ==
    { [metadata |-> m] :
        m \in { q \in SeqsUpTo(MetadataRows, MaxRows) :
                  \A i, j \in 1..Len(q) : q[i] = q[j] => i = j } }

\* test_dataset.metadata[test_dataset.metadata['host_specz'] > 0]
CutMetadata(metadata) == SelectSeq(metadata, LAMBDA r : Gt(r.host_specz, 0))

\* np.vstack([host_specz, host_photoz, host_photoz_error]).T
BuildReference(dataset) ==
    LET cut_metadata == CutMetadata(dataset.metadata)
    IN  [i \in 1..Len(cut_metadata) |->
            << cut_metadata[i].host_specz,
               cut_metadata[i].host_photoz,
               cut_metadata[i].host_photoz_error >>]

-----------------------------------------------------------------------------
(* _load_test_dataset and _load_photoz_reference, run without interleaving. *)
(* Each yields the object's fields after the call and the value returned.   *)

load_test_dataset(td) ==
    IF td.isNone
    THEN [test_dataset |-> stored, loads |-> loads + 1,
          raised |-> stored.isNone, value |-> stored]
    ELSE [test_dataset |-> td, loads |-> loads, raised |-> FALSE, value |-> td]

\* mutation: the "is None" test of line 54 (and of line 35) always passes
load_photoz_reference_uncached ==
    LET l == load_test_dataset(None)
    IN  IF l.raised
        THEN [test_dataset |-> test_dataset, photoz_reference |-> None,
              loads |-> l.loads, raised |-> TRUE, value |-> None]
        ELSE [test_dataset |-> l.test_dataset,
              photoz_reference |-> Some(BuildReference(l.value.val)),
              loads |-> l.loads, raised |-> FALSE,
              value |-> Some(BuildReference(l.value.val))]

load_photoz_reference ==
    IF photoz_reference.isNone
    THEN LET l == load_test_dataset(test_dataset)
         IN  IF l.raised
             THEN [test_dataset |-> test_dataset, photoz_reference |-> None,
                   loads |-> l.loads, raised |-> TRUE, value |-> None]
             ELSE LET result == BuildReference(l.value.val)
                  IN  [test_dataset |-> l.test_dataset,
                       photoz_reference |-> Some(result),
                       loads |-> l.loads, raised |-> FALSE,
                       value |-> Some(result)]
    ELSE [test_dataset |-> test_dataset, photoz_reference |-> photoz_reference,
          loads |-> loads, raised |-> FALSE, value |-> photoz_reference]

-----------------------------------------------------------------------------
(* Inputs and random draws *)

\* true redshifts _simulate_photoz is called with directly
Redshifts == { 0 - 500, 0, 50 }

\* mutation: the residual is always applied with its sign flipped
SignsFlippedOnly == { 0 - 1 }

\* np.random.choice([-1, 1])
Signs == { 0 - 1, 1 }

\* np.random.normal(1, 0.05)
ErrFactors == { 950, 1050 }

\* np.random.normal(1, 0.1)
MwebvFactors == { 900, 1100 }

\* np.random.normal(0.5, 0.5)
BrightnessDraws == { 0 - 200, 500 }

\* np.random.rand() > 0.8
DdfDraws == BOOLEAN

\* redshifts of the non-galactic reference objects
TemplateRedshifts == { 0 - 100, 0, 100, 500 }

Metadata(galactic, ddf, z) ==
    [galactic |-> galactic, ddf |-> ddf, redshift |-> z, host_specz |-> z,
     host_photoz |-> z, host_photoz_error |-> 0, mwebv |-> 100]

ReferenceObjects ==
    { Metadata(TRUE, d, 0) : d \in BOOLEAN }
        \cup { Metadata(FALSE, d, z) : d \in BOOLEAN, z \in TemplateRedshifts }

NoMetadata == Metadata(TRUE, FALSE, 0)

-----------------------------------------------------------------------------
(* np.log, np.random.uniform and np.exp.  The logarithm of a positive x is  *)
(* kept symbolically as ln(x); log(0) is -inf and the log of a negative     *)
(* number is NaN.                                                           *)

Log(x) ==
    IF x = NaN \/ x < 0 THEN [kind |-> "nan", arg |-> 0]
    ELSE IF x = 0 THEN [kind |-> "-inf", arg |-> 0]
    ELSE [kind |-> "finite", arg |-> x]

Exp(l) ==
    IF l.kind = "nan" THEN NaN
    ELSE IF l.kind = "-inf" THEN 0
    ELSE l.arg

\* a finite sample of the real interval between a and b, ends included
Samples(a, b) == { a + (i * (b - a)) \div MaxSamples : i \in 0..MaxSamples }

\* np.random.uniform(low, high): low + (high - low) * u.  With a range that
\* is not finite numpy either raises OverflowError('Range exceeds valid
\* bounds') or, before that check existed, returns NaN.
uniform(low, high) ==
    IF low.kind = "finite" /\ high.kind = "finite"
    THEN { [raised |-> FALSE, value |-> Log(x)] : x \in Samples(low.arg, high.arg) }
    ELSE { [raised |-> TRUE, value |-> Log(NaN)],
           [raised |-> FALSE, value |-> Log(NaN)] }

\* np.min([a, b])
npmin(a, b) == IF a = NaN \/ b = NaN THEN NaN ELSE Min(a, b)

\* mutation: a lower limit of half the template redshift
min_redshift_half(template_redshift) == Mul(500, template_redshift)

min_redshift(template_redshift) == Mul(950, template_redshift)

\* mutation: the cap of lines 158-160 is missing
max_redshift_uncapped(template_redshift) == Mul(5000, template_redshift)

max_redshift(template_redshift) ==
    npmin(Mul(5000, template_redshift),
          Add(Mul(1500, Add(Scale, template_redshift)), 0 - Scale))

\* the draws of aug_redshift
aug_redshift_draws(template_redshift) ==
    { [raised |-> d.raised, value |-> Exp(d.value)] :
        d \in uniform(Log(min_redshift(template_redshift)),
                      Log(max_redshift(template_redshift))) }

\* self.cosmology.distmod(z).value: an external function of z
distmod(z) == << "distmod", z >>

-----------------------------------------------------------------------------
(* The rejection loop of _simulate_photoz *)

\* (ref_photoz - ref_specz) * np.random.choice([-1, 1])
new_diff(row, sign) == Mul(Add(row[2], 0 - row[1]), sign * Scale)

candidate_photoz(z, row, sign) == Add(z, new_diff(row, sign))

\* mutation: the test of line 105 is missing
is_rejected_never(photoz) == FALSE

\* "if new_photoz < 0: continue"
is_rejected(photoz) == Lt(photoz, 0)

\* ref_photoz_err * np.random.normal(1, 0.05)
perturbed_err(row, factor) == Mul(row[3], factor)

-----------------------------------------------------------------------------
(* State of a freshly entered __init__ (lines 17-18 done, line 21 pending) *)

Threads == 0..NumThreads

NoLocals == [test_dataset |-> None, result |-> <<>>, in_init |-> FALSE]

ObjectInit ==
    /\ stored \in { Some(d) : d \in Datasets } \cup { None }
    /\ loads = 0
    /\ test_dataset = None
    /\ photoz_reference = None
    /\ pc = "init"
    /\ op = "__init__"
    /\ outcome = "running"
    /\ result_table = None

CallLocalsInit ==
    /\ redshift = 0
    /\ rejected = 0
    /\ new_photoz = 0
    /\ new_photoz_err = 0
    /\ reference_object = NoMetadata
    /\ augmented_metadata = NoMetadata

FramesInit ==
    /\ frames = << >>
    /\ arg_before = << >>
    /\ returned_frame = 0
    /\ pass_detection = FALSE

ThreadsIdle ==
    /\ tpc = [t \in Threads |-> "idle"]
    /\ tlocal = [t \in Threads |-> NoLocals]
    /\ tret = [t \in Threads |-> None]

Init == ObjectInit /\ CallLocalsInit /\ FramesInit /\ ThreadsIdle

frame_vars == <<frames, arg_before, returned_frame, pass_detection>>

thread_vars == <<tpc, tlocal, tret>>

call_vars == <<redshift, rejected, new_photoz, new_photoz_err,
               reference_object, augmented_metadata>>

\* the locals of the previous call are gone when a new call starts
ResetCallLocals ==
    /\ rejected' = 0
    /\ new_photoz' = 0
    /\ new_photoz_err' = 0

\* the effect of a call of _load_photoz_reference on the object
CacheAfter(l) ==
    /\ test_dataset' = l.test_dataset
    /\ photoz_reference' = l.photoz_reference
    /\ loads' = l.loads

-----------------------------------------------------------------------------
(* One thread: the constructor, then any sequence of calls *)

\* __init__, line 21: self._load_photoz_reference()
init ==
    /\ pc = "init"
    /\ LET l == load_photoz_reference
       IN  /\ CacheAfter(l)
           /\ result_table' = l.value
           /\ pc' = IF l.raised THEN "crashed" ELSE "idle"
           /\ outcome' = IF l.raised THEN "LoadError" ELSE "returned"
    /\ UNCHANGED <<stored, op, call_vars, frame_vars, thread_vars>>

\* a call of _load_photoz_reference
get_reference_table ==
    /\ pc = "idle"
    /\ LET l == load_photoz_reference
       IN  /\ CacheAfter(l)
           /\ result_table' = l.value
           /\ outcome' = IF l.raised THEN "LoadError" ELSE "returned"
    /\ op' = "get_reference_table"
    /\ ResetCallLocals
    /\ redshift' = 0
    /\ reference_object' = NoMetadata
    /\ augmented_metadata' = NoMetadata
    /\ UNCHANGED <<stored, pc, frame_vars, thread_vars>>

\* _simulate_photoz, line 91, entering the loop of line 93
enter_loop(l) ==
    /\ CacheAfter(l)
    /\ result_table' = l.value
    /\ pc' = IF l.raised THEN "idle" ELSE "loop"
    /\ outcome' = IF l.raised THEN "LoadError" ELSE "running"
    /\ ResetCallLocals

\* a call of _simulate_photoz(z)
simulate_photoz(z) ==
    /\ pc = "idle"
    /\ op' = "simulate_photoz"
    /\ redshift' = z
    /\ enter_loop(load_photoz_reference)
    /\ reference_object' = NoMetadata
    /\ augmented_metadata' = NoMetadata
    /\ UNCHANGED <<stored, frame_vars, thread_vars>>

\* line 94 on a table without rows: np.random.choice(0) raises ValueError
draw_empty ==
    /\ pc = "loop"
    /\ Len(result_table.val) = 0
    /\ pc' = "idle"
    /\ outcome' = "ValueError"
    /\ UNCHANGED <<stored, loads, test_dataset, photoz_reference, op,
                   result_table, call_vars, frame_vars, thread_vars>>

\* lines 94-106: a draw whose candidate is negative
draw_rejected(ref_idx, sign) ==
    /\ pc = "loop"
    /\ ref_idx \in 1..Len(result_table.val)
    /\ is_rejected(candidate_photoz(redshift, result_table.val[ref_idx], sign))
    /\ rejected' = Min(rejected + 1, MaxAttempts)
    /\ new_photoz' = candidate_photoz(redshift, result_table.val[ref_idx], sign)
    /\ UNCHANGED <<stored, loads, test_dataset, photoz_reference, pc, op,
                   outcome, result_table, redshift, new_photoz_err,
                   reference_object, augmented_metadata, frame_vars,
                   thread_vars>>

\* _augment_redshift, lines 170-176, and _augment_metadata, lines 200-216
finish_augment(md, z, photoz, photoz_error, ddf_draw, mwebv_factor) ==
    LET m1 == [md EXCEPT !.redshift = z, !.host_specz = z,
                         !.host_photoz = photoz,
                         !.host_photoz_error = photoz_error]
        m2 == ("distmod" :> distmod(photoz)) @@ m1
        m3 == [m2 EXCEPT !.ddf = IF md.ddf THEN ddf_draw ELSE FALSE]
    IN  [m3 EXCEPT !.mwebv = Mul(m3.mwebv, mwebv_factor)]

\* lines 94-114: a draw that is accepted; the caller then runs to its end
draw_accepted(ref_idx, sign, factor, ddf_draw, mwebv_factor) ==
    /\ pc = "loop"
    /\ ref_idx \in 1..Len(result_table.val)
    /\ LET row == result_table.val[ref_idx]
           photoz == candidate_photoz(redshift, row, sign)
       IN  /\ ~is_rejected(photoz)
           /\ new_photoz' = photoz
           /\ new_photoz_err' = perturbed_err(row, factor)
           /\ augmented_metadata' =
                 IF op = "augment_metadata"
                 THEN finish_augment(augmented_metadata, redshift, photoz,
                                     perturbed_err(row, factor), ddf_draw,
                                     mwebv_factor)
                 ELSE augmented_metadata
    /\ pc' = "idle"
    /\ outcome' = "returned"
    /\ UNCHANGED <<stored, loads, test_dataset, photoz_reference, op,
                   result_table, redshift, rejected, reference_object,
                   frame_vars, thread_vars>>

\* _augment_redshift, lines 130-140, then _augment_metadata, lines 200-216
augment_galactic(md, brightness, ddf_draw, mwebv_factor) ==
    LET m1 == [md EXCEPT !.redshift = 0, !.host_specz = 0, !.host_photoz = 0,
                         !.host_photoz_error = 0]
        m2 == ("augment_brightness" :> brightness) @@ m1
        m3 == [m2 EXCEPT !.ddf = IF md.ddf THEN ddf_draw ELSE FALSE]
    IN  [m3 EXCEPT !.mwebv = Mul(m3.mwebv, mwebv_factor)]

\* a call of _augment_metadata on a galactic object
augment_metadata_galactic(obj, brightness, ddf_draw, mwebv_factor) ==
    /\ pc = "idle"
    /\ obj.galactic
    /\ op' = "augment_metadata"
    /\ reference_object' = obj
    /\ augmented_metadata' =
          augment_galactic(obj, brightness, ddf_draw, mwebv_factor)
    /\ outcome' = "returned"
    /\ ResetCallLocals
    /\ redshift' = 0
    /\ UNCHANGED <<stored, loads, test_dataset, photoz_reference, pc,
                   result_table, frame_vars, thread_vars>>

\* a call of _augment_metadata on an extragalactic object, up to line 169
augment_metadata_extragalactic(obj, draw) ==
    /\ pc = "idle"
    /\ ~obj.galactic
    /\ draw \in aug_redshift_draws(obj.redshift)
    /\ op' = "augment_metadata"
    /\ reference_object' = obj
    /\ augmented_metadata' = obj
    /\ IF draw.raised
       THEN /\ outcome' = "OverflowError"
            /\ redshift' = 0
            /\ ResetCallLocals
            /\ UNCHANGED <<loads, test_dataset, photoz_reference, pc,
                           result_table>>
       ELSE /\ redshift' = draw.value
            /\ enter_loop(load_photoz_reference)
    /\ UNCHANGED <<stored, frame_vars, thread_vars>>

LoopStep ==
    \/ draw_empty
    \/ \E i \in 1..MaxRows + 1, s \in Signs : draw_rejected(i, s)
    \/ \E i \in 1..MaxRows + 1, s \in Signs, f \in ErrFactors,
          d \in DdfDraws, m \in MwebvFactors : draw_accepted(i, s, f, d, m)

Accepted ==
    \E i \in 1..MaxRows + 1, s \in Signs, f \in ErrFactors,
       d \in DdfDraws, m \in MwebvFactors : draw_accepted(i, s, f, d, m)

Next ==
    \/ init
    \/ get_reference_table
    \/ \E z \in Redshifts : simulate_photoz(z)
    \/ draw_empty
    \/ \E i \in 1..MaxRows + 1, s \in Signs : draw_rejected(i, s)
    \/ \E i \in 1..MaxRows + 1, s \in Signs, f \in ErrFactors,
          d \in DdfDraws, m \in MwebvFactors : draw_accepted(i, s, f, d, m)
    \/ \E obj \in ReferenceObjects, b \in BrightnessDraws, d \in DdfDraws,
          m \in MwebvFactors : augment_metadata_galactic(obj, b, d, m)
    \/ \E obj \in ReferenceObjects, draw \in
          UNION { aug_redshift_draws(z) : z \in TemplateRedshifts } :
              augment_metadata_extragalactic(obj, draw)

Spec == Init /\ [][Next]_vars

FairSpec == Spec /\ WF_vars(LoopStep) /\ WF_vars(Accepted)

-----------------------------------------------------------------------------
(* Several threads calling _load_photoz_reference on one augmentor, statement *)
(* by statement.  Thread 0 constructs the object; the object is handed to     *)
(* the other threads once __init__ has returned.                              *)

goto(t, label) == tpc' = [tpc EXCEPT ![t] = label]

InitThreads ==
    /\ ObjectInit /\ CallLocalsInit /\ FramesInit
    /\ tpc = [t \in Threads |-> IF t = 0 THEN "L21" ELSE "idle"]
    /\ tlocal = [t \in Threads |-> NoLocals]
    /\ tret = [t \in Threads |-> None]

object_vars == <<stored, loads, test_dataset, photoz_reference>>

main_vars == <<pc, op, outcome, result_table>>

\* mutation: __init__ returns without loading the reference
t_init_skip_load(t) ==
    /\ tpc[t] = "L21"
    /\ goto(t, "idle")
    /\ pc' = "idle"
    /\ outcome' = "returned"
    /\ UNCHANGED <<object_vars, op, result_table, call_vars, frame_vars,
                   tlocal, tret>>

\* __init__, line 21: the constructor's call
t_init_call(t) ==
    /\ tpc[t] = "L21"
    /\ goto(t, "L54")
    /\ tlocal' = [tlocal EXCEPT ![t] = [NoLocals EXCEPT !.in_init = TRUE]]
    /\ UNCHANGED <<object_vars, main_vars, call_vars, frame_vars, tret>>

\* a call by a thread that holds the constructed object
t_call(t) ==
    /\ pc = "idle"
    /\ tpc[t] = "idle"
    /\ goto(t, "L54")
    /\ tlocal' = [tlocal EXCEPT ![t] = NoLocals]
    /\ UNCHANGED <<object_vars, main_vars, call_vars, frame_vars, tret>>

\* line 54: if self._photoz_reference is None
t_check_reference(t) ==
    /\ tpc[t] = "L54"
    /\ goto(t, IF photoz_reference.isNone THEN "L35" ELSE "L67")
    /\ UNCHANGED <<object_vars, main_vars, call_vars, frame_vars, tlocal, tret>>

\* line 35: if self._test_dataset is None
t_check_test_dataset(t) ==
    /\ tpc[t] = "L35"
    /\ goto(t, IF test_dataset.isNone THEN "L36" ELSE "L39")
    /\ UNCHANGED <<object_vars, main_vars, call_vars, frame_vars, tlocal, tret>>

\* line 36: Dataset.load('plasticc_test', metadata_only=True)
t_load(t) ==
    /\ tpc[t] = "L36"
    /\ loads' = loads + 1
    /\ IF stored.isNone
       THEN /\ goto(t, IF tlocal[t].in_init THEN "dead" ELSE "idle")
            /\ pc' = IF tlocal[t].in_init THEN "crashed" ELSE pc
            /\ outcome' = IF tlocal[t].in_init THEN "LoadError" ELSE outcome
            /\ UNCHANGED tlocal
       ELSE /\ goto(t, "L36s")
            /\ tlocal' = [tlocal EXCEPT ![t].test_dataset = stored]
            /\ UNCHANGED <<pc, outcome>>
    /\ UNCHANGED <<stored, test_dataset, photoz_reference, op, result_table,
                   call_vars, frame_vars, tret>>

\* line 36: self._test_dataset = <the loaded dataset>
t_store_test_dataset(t) ==
    /\ tpc[t] = "L36s"
    /\ test_dataset' = tlocal[t].test_dataset
    /\ goto(t, "L39")
    /\ UNCHANGED <<stored, loads, photoz_reference, main_vars, call_vars,
                   frame_vars, tlocal, tret>>

\* lines 39 and 56: test_dataset = self._test_dataset
t_return_test_dataset(t) ==
    /\ tpc[t] = "L39"
    /\ tlocal' = [tlocal EXCEPT ![t].test_dataset = test_dataset]
    /\ goto(t, "L58")
    /\ UNCHANGED <<object_vars, main_vars, call_vars, frame_vars, tret>>

\* lines 58-63: result = np.vstack(...).T
t_build(t) ==
    /\ tpc[t] = "L58"
    /\ tlocal' = [tlocal EXCEPT
                    ![t].result = BuildReference(tlocal[t].test_dataset.val)]
    /\ goto(t, "L65")
    /\ UNCHANGED <<object_vars, main_vars, call_vars, frame_vars, tret>>

\* line 65: self._photoz_reference = result
t_store_reference(t) ==
    /\ tpc[t] = "L65"
    /\ photoz_reference' = Some(tlocal[t].result)
    /\ goto(t, "L67")
    /\ UNCHANGED <<stored, loads, test_dataset, main_vars, call_vars,
                   frame_vars, tlocal, tret>>

\* line 67: return self._photoz_reference; __init__ returns after its call
t_return(t) ==
    /\ tpc[t] = "L67"
    /\ tret' = [tret EXCEPT ![t] = photoz_reference]
    /\ goto(t, "idle")
    /\ pc' = IF tlocal[t].in_init THEN "idle" ELSE pc
    /\ outcome' = IF tlocal[t].in_init THEN "returned" ELSE outcome
    /\ UNCHANGED <<object_vars, op, result_table, call_vars, frame_vars,
                   tlocal>>

NextThreads ==
    \/ \E t \in Threads : t_init_call(t)
    \/ \E t \in Threads : t_call(t)
    \/ \E t \in Threads : t_check_reference(t)
    \/ \E t \in Threads : t_check_test_dataset(t)
    \/ \E t \in Threads : t_load(t)
    \/ \E t \in Threads : t_store_test_dataset(t)
    \/ \E t \in Threads : t_return_test_dataset(t)
    \/ \E t \in Threads : t_build(t)
    \/ \E t \in Threads : t_store_reference(t)
    \/ \E t \in Threads : t_return(t)

SpecThreads == InitThreads /\ [][NextThreads]_vars

-----------------------------------------------------------------------------
(* _simulate_light_curve_uncertainties and _simulate_detection.  Fluxes and *)
(* flux errors are integers; a square root is rounded down.                 *)

ObservationRows ==
    { [band |-> "lsstu", flux |-> 100, flux_error |-> 3],
      [band |-> "lsstr", flux |-> 0 - 40, flux_error |-> 0],
      [band |-> "lssty", flux |-> 0, flux_error |-> 0] }

ObservationTables == SeqsUpTo(ObservationRows, MaxObs)

Bands == { "lsstu", "lsstg", "lsstr", "lssti", "lsstz", "lssty" }

\* lines 287-304, (mu, sigma) in hundredths
band_noises(ddf) ==
    IF ddf
    THEN [b \in Bands |->
            CASE b = "lsstu" -> << 68, 26 >> [] b = "lsstg" -> << 25, 50 >>
              [] b = "lsstr" -> << 16, 36 >> [] b = "lssti" -> << 53, 27 >>
              [] b = "lsstz" -> << 88, 22 >> [] b = "lssty" -> << 176, 23 >>]
    ELSE [b \in Bands |->
            CASE b = "lsstu" -> << 234, 43 >> [] b = "lsstg" -> << 94, 41 >>
              [] b = "lsstr" -> << 130, 41 >> [] b = "lssti" -> << 182, 42 >>
              [] b = "lsstz" -> << 256, 36 >> [] b = "lssty" -> << 333, 37 >>]

\* np.random.lognormal(mean, sigma): any positive number, whatever the
\* parameters
AddStdDraws == { 3, 4 }

lognormal(mean, sigma) == AddStdDraws

\* np.random.normal(0, 1): the additive noise is this times add_stds
StandardNormalDraws == { 0 - 1, 1 }

Sqrt(n) == CHOOSE r \in 0..n : r * r <= n /\ n < (r + 1) * (r + 1)

\* lines 308-317 for one row
noisy_row(row, add_std, z) ==
    [row EXCEPT !.flux = row.flux + z * add_std,
                !.flux_error = Sqrt(row.flux_error * row.flux_error
                                    + add_std * add_std)]

\* mutation: no copy is made, the method works on the caller's frame
copy_alias(fs, id) == fs

\* observations.copy(): a new frame
copy(fs, id) == Append(fs, fs[id])

\* lines 280-319 on the frames: the frames afterwards and the frame returned
simulate_light_curve_uncertainties(fs, id, ddf, add_stds, zs) ==
    LET copied == copy(fs, id)
        observations == Len(copied)
    IN  IF Len(copied[observations]) = 0
        THEN [frames |-> copied, returned |-> observations]
        ELSE [frames |->
                [copied EXCEPT ![observations] =
                    [i \in 1..Len(copied[observations]) |->
                        noisy_row(copied[observations][i], add_stds[i], zs[i])]],
              returned |-> observations]

\* line 345: np.abs(flux) / flux_error; x/0 is inf and 0/0 is NaN
s2n(row) ==
    IF row.flux_error = 0
    THEN IF row.flux = 0 THEN [kind |-> "nan", num |-> 0, den |-> 1]
         ELSE [kind |-> "inf", num |-> 0, den |-> 1]
    ELSE [kind |-> "finite", num |-> Abs(row.flux), den |-> row.flux_error]

\* line 346: (erf((s2n - 5.5) / 2) + 1) / 2 is strictly between 0 and 1 for a
\* finite s2n, 1 for an infinite one and NaN for NaN
prob_detected(x) ==
    IF x.kind = "nan" THEN "nan"
    ELSE IF x.kind = "inf" THEN "one"
    ELSE "between"

\* line 347: np.random.rand() < prob, rand in [0, 1)
detected_draws(prob) ==
    IF prob = "nan" THEN { FALSE }
    ELSE IF prob = "one" THEN { TRUE }
    ELSE BOOLEAN

\* mutation: one detection is enough
passes_one(observations) ==
    Cardinality({ i \in 1..Len(observations) : observations[i].detected }) >= 1

\* line 349: np.sum(observations['detected']) >= 2
passes(observations) ==
    Cardinality({ i \in 1..Len(observations) : observations[i].detected }) >= 2

\* lines 345-351 on one frame
simulate_detection_rows(observations, detected) ==
    [i \in 1..Len(observations) |->
        ("detected" :> detected[i]) @@ observations[i]]

InitObs ==
    /\ stored = Some([metadata |-> << >>])
    /\ loads = 1
    /\ test_dataset = stored
    /\ photoz_reference = Some(<< >>)
    /\ pc = "idle"
    /\ op = "none"
    /\ outcome = "returned"
    /\ result_table = photoz_reference
    /\ redshift = 0 /\ rejected = 0 /\ new_photoz = 0 /\ new_photoz_err = 0
    /\ reference_object = NoMetadata
    /\ augmented_metadata \in { Metadata(TRUE, d, 0) : d \in BOOLEAN }
    /\ frames \in { << t >> : t \in ObservationTables }
    /\ arg_before = << >>
    /\ returned_frame = 0
    /\ pass_detection = FALSE
    /\ ThreadsIdle

\* a call of _simulate_light_curve_uncertainties on the caller's table
inject_noise(add_stds, zs) ==
    /\ pc = "idle"
    /\ op = "none"
    /\ DOMAIN add_stds = 1..Len(frames[1])
    /\ DOMAIN zs = 1..Len(frames[1])
    /\ \A i \in 1..Len(frames[1]) :
          add_stds[i] \in lognormal(band_noises(augmented_metadata.ddf)[frames[1][i].band][1],
                                    band_noises(augmented_metadata.ddf)[frames[1][i].band][2])
    /\ LET r == simulate_light_curve_uncertainties(
                    frames, 1, augmented_metadata.ddf, add_stds, zs)
       IN  /\ frames' = r.frames
           /\ returned_frame' = r.returned
    /\ arg_before' = frames[1]
    /\ op' = "inject_noise"
    /\ UNCHANGED <<object_vars, pc, outcome, result_table, call_vars,
                   pass_detection, thread_vars>>

\* a call of _simulate_detection on the caller's latest table
simulate_detection(detected) ==
    /\ pc = "idle"
    /\ op \in { "none", "inject_noise" }
    /\ LET id == Len(frames)
       IN  /\ DOMAIN detected = 1..Len(frames[id])
           /\ \A i \in 1..Len(frames[id]) :
                 detected[i] \in detected_draws(prob_detected(s2n(frames[id][i])))
           /\ frames' = [frames EXCEPT
                           ![id] = simulate_detection_rows(frames[id], detected)]
           /\ pass_detection' = passes(frames'[id])
           /\ returned_frame' = id
           /\ arg_before' = frames[id]
    /\ op' = "simulate_detection"
    /\ UNCHANGED <<object_vars, pc, outcome, result_table, call_vars,
                   thread_vars>>

NextObs ==
    \/ \E a \in SeqsUpTo(AddStdDraws, MaxObs), z \in SeqsUpTo(StandardNormalDraws, MaxObs) :
          inject_noise(a, z)
    \/ \E d \in SeqsUpTo(BOOLEAN, MaxObs) : simulate_detection(d)

SpecObs == InitObs /\ [][NextObs]_vars

-----------------------------------------------------------------------------
(* Properties *)

Returned(name) == op = name /\ pc = "idle" /\ outcome = "returned"

ExtragalacticReturned ==
    /\ Returned("augment_metadata")
    /\ ~reference_object.galactic

DetectedCount(observations) ==
    Cardinality({ i \in 1..Len(observations) : observations[i].detected })

\* C1: on one augmentor the dataset loader is invoked at most once, and once
\* the cache is loaded no step changes it or invokes the loader again: every
\* call returns the cached table.
C1_LoadedOnce ==
    [][ /\ loads' <= 1
        /\ ~photoz_reference.isNone =>
              /\ photoz_reference' = photoz_reference
              /\ loads' = loads
              /\ result_table' = photoz_reference ]_vars

C1_Witness ==
    /\ Returned("get_reference_table")
    /\ loads = 1
    /\ ~photoz_reference.isNone
    /\ result_table = photoz_reference

\* C2: whenever _simulate_photoz returns for a true redshift z > 0, the
\* photo-z it returns is a number >= 0.
C2_PhotozNonNegative ==
    (/\ op \in { "simulate_photoz", "augment_metadata" }
     /\ pc = "idle"
     /\ outcome = "returned"
     /\ Gt(redshift, 0))
        => (new_photoz # NaN /\ new_photoz >= 0)

C2_Witness ==
    /\ Returned("simulate_photoz")
    /\ Gt(redshift, 0)
    /\ rejected > 0
    /\ new_photoz >= 0

\* C3: for an extragalactic reference object with redshift z0 > 0 the
\* augmented redshift and host_specz are the same value new_z, with
\* 0.95*z0 <= new_z <= min(5*z0, 1.5*(1+z0)-1), and the lower limit is not
\* above the upper one.
C3_RedshiftInRange ==
    (ExtragalacticReturned /\ reference_object.redshift > 0) =>
        LET z0 == reference_object.redshift
            new_z == augmented_metadata.redshift
        IN  /\ augmented_metadata.host_specz = new_z
            /\ new_z # NaN
            /\ 100 * new_z >= 95 * z0
            /\ new_z <= 5 * z0
            /\ 2 * new_z <= 3 * (Scale + z0) - 2 * Scale
            /\ 95 * z0 <= 500 * z0
            /\ 2 * 95 * z0 <= 100 * (3 * (Scale + z0) - 2 * Scale)

C3_Witness ==
    /\ ExtragalacticReturned
    /\ reference_object.redshift = 100
    /\ augmented_metadata.redshift > 95
    /\ augmented_metadata.redshift < 500
    /\ augmented_metadata.host_specz = augmented_metadata.redshift

\* C4: _augment_metadata on a non-galactic object with redshift z0 <= 0 is
\* rejected with an explicit error of the package; it neither enters the
\* photo-z simulator nor returns metadata.
C4_DegenerateRejected ==
    (/\ op = "augment_metadata"
     /\ ~reference_object.galactic
     /\ reference_object.redshift <= 0)
        => (pc = "idle" /\ outcome = "AvocadoException")

\* C5: _simulate_photoz never hangs: once in its loop it ends, with a result
\* or with a failure.
C5_LoopEnds == (pc = "loop") ~> (pc = "idle")

C7_InputUntouched ==
    op = "inject_noise" =>
        /\ frames[1] = arg_before
        /\ returned_frame # 1
        /\ returned_frame \in DOMAIN frames
        /\ Len(frames[returned_frame]) = Len(arg_before)
        /\ Len(arg_before) = 0 => frames[returned_frame] = arg_before

C7_Witness ==
    /\ op = "inject_noise"
    /\ Len(arg_before) > 0
    /\ frames[1] = arg_before
    /\ frames[returned_frame] # arg_before

\* C8: _simulate_detection returns pass_detection = TRUE exactly when at
\* least 2 rows are flagged detected; a table of fewer than 2 rows never
\* passes.
C8_PassIffTwoDetected ==
    op = "simulate_detection" =>
        /\ pass_detection <=> DetectedCount(frames[returned_frame]) >= 2
        /\ Len(frames[returned_frame]) < 2 => ~pass_detection

C8_Witness ==
    /\ op = "simulate_detection"
    /\ Len(frames[returned_frame]) = 1
    /\ frames[returned_frame][1].detected
    /\ ~pass_detection

DeepFieldHalf ==
    /\ ExtragalacticReturned
    /\ reference_object.ddf
    /\ reference_object.redshift = 500

\* C9, as stated: for a deep-field extragalactic reference object with
\* redshift 0.5 the augmented redshift lies in [0.475, 1.0].
C9_Original ==
    DeepFieldHalf =>
        (augmented_metadata.redshift >= 475 /\ augmented_metadata.redshift <= 1000)

\* C9, amended: for a deep-field extragalactic reference object with
\* redshift 0.5 the augmented redshift lies in [0.475, 1.25].
C9_Amended ==
    DeepFieldHalf =>
        (augmented_metadata.redshift >= 475 /\ augmented_metadata.redshift <= 1250)

C9_Witness ==
    /\ DeepFieldHalf
    /\ augmented_metadata.redshift > 1000

LoopOnValidInput ==
    /\ pc = "loop"
    /\ redshift # NaN
    /\ redshift >= 0
    /\ Len(result_table.val) > 0

\* C10: with a non-empty reference table and a true redshift >= 0, every
\* iteration of the rejection loop has a draw (row, sign) that is accepted,
\* and under fair random choice the loop is left with a result.
C10_LoopTerminates ==
    /\ [](LoopOnValidInput =>
            \A i \in 1..Len(result_table.val) : \E s \in Signs :
                ~is_rejected(candidate_photoz(redshift, result_table.val[i], s)))
    /\ (LoopOnValidInput ~> (pc = "idle" /\ outcome = "returned"))

C10_Witness ==
    /\ LoopOnValidInput
    /\ redshift = 0
    /\ rejected > 0

=============================================================================
